---- MODULE Spec2Model ----
(***************************************************************************)
(* Web-Skyling: the Express handlers of src/server.js, first of all those  *)
(* over the PostgreSQL relation web_skyling_templates.                     *)
(*                                                                         *)
(* Every statement a handler sends to the store is one step; awaits that   *)
(* neither read nor write the relation are taken with the step they        *)
(* precede or follow.  The store is PostgreSQL at its default isolation    *)
(* level (READ COMMITTED): a statement reads the committed relation, a     *)
(* transaction's UPDATE stays private until COMMIT, and a writer whose row *)
(* or unique key is held by a transaction in progress waits until that     *)
(* transaction ends and then acts on what is committed.  The column        *)
(* id SERIAL is read by no handler (rows are found by name and ordered by  *)
(* created_at) and is left out of the rows.                                *)
(*                                                                         *)
(* Spec runs two requests at a time beside initDB, with one payload and    *)
(* the clock at rest; SpecSerial runs one caller's requests one after the  *)
(* other, with every payload and a moving clock, and records for each      *)
(* request the relation it was issued on.                                  *)
(* SpecList is SpecSerial with one payload and three clock values.         *)
(*                                                                         *)
(* Beside the template store: the relation web_skyling_config with its two *)
(* routes and initDB's seeding (SpecConfig: one caller after the seeding;   *)
(* SpecStore: initDB in the order of its statements beside a configuration *)
(* caller and a template caller), the session middleware with login and    *)
(* logout (SpecAuth), and the streaming handler of /api/generate (SpecGen). *)
(* SpecPage is the browser page of src/public/app.js: its template         *)
(* handlers and the responses the routes give them.                        *)
(***************************************************************************)
EXTENDS Integers, Sequences, FiniteSets, TLC

\* ---------------------------------------------------------------- bounds
\* The last value of the store's clock.
MaxClock == 1
\* The last value of the clock where three creation times are told apart.
MaxListClock == 2
\* The most chunks a vendor stream yields.
MaxChunks == 3
\* The most fetches of the page in flight at once.
MaxCalls == 2

Names == {"A", "B", "C"}
Payloads == {"d1", "d2"}
\* The requests in flight at once, and the slot of the observed caller.
Procs == {"p1", "p2"}
SeqProc == "p1"

\* The contents of templates.json that initDB may find at first boot.
JsonFiles ==
    { << >>,
      << [name |-> "A", data |-> "d1"], [name |-> "B", data |-> "d2"] >>,
      << [name |-> "A", data |-> "d1"], [name |-> "A", data |-> "d2"] >> }

VARIABLES
    tables,     \* TRUE once CREATE TABLE web_skyling_templates has run
    templates,  \* committed rows of web_skyling_templates
    now,        \* CURRENT_TIMESTAMP of the store
    txn,        \* per request: the uncommitted write of its transaction
    req,        \* per request: the handler's locals, position and response
    boot,       \* initDB: position and the templates still to migrate
    observed,   \* TRUE when the requests are issued by one observed caller
    pre,        \* history: the relation when the observed caller's request
                \* was issued
    configTable,\* TRUE once CREATE TABLE web_skyling_config has run
    config,     \* rows of web_skyling_config
    seed,       \* initDB's seeding of the configuration
    creq,       \* the configuration caller's request
    cpre,       \* history: web_skyling_config when that request was issued
    gen,        \* the generate request: its stream and its response
    creds,      \* USER_USERNAME and USER_PASSWORD of the environment
    session,    \* per client: the user of its session
    areq,       \* the last request the middleware chain took in
    page        \* the browser page of public/app.js: its state, the controls
                \* it drives and its fetches in flight

\* The template store, and everything beside it.
store == << tables, templates, now, txn, req, boot, observed, pre >>

cfg == << configTable, config, seed, creq, cpre >>

auth == << creds, session, areq >>

side == << cfg, gen, auth, page >>

vars == << store, side >>

\* ------------------------------------------------------------ the relation
Row(n, d, t) == [name |-> n, data |-> d, created_at |-> t]

RowsNamed(rel, n) == { r \in rel : r.name = n }

NamesOf(rel) == { r.name : r \in rel }

NoWrite == [del |-> {}, ins |-> {}]

NoUniqueViolation(rel, n) == FALSE

\* name TEXT UNIQUE NOT NULL: a row named n cannot be stored next to
\* another row of that name.
UniqueViolation(rel, n) == RowsNamed(rel, n) # {}

\* Names held by the transactions in progress of the other requests: a
\* statement that writes one of them waits.
HeldBy(q) == NamesOf(txn[q].del) \cup NamesOf(txn[q].ins)

HeldByNobody(p) == {}

HeldByOthers(p) == UNION { HeldBy(q) : q \in Procs \ {p} }

UpsertRestamps(rel, n, d, t) ==
    IF UniqueViolation(rel, n)
    THEN { IF r.name = n THEN Row(n, d, t) ELSE r : r \in rel }
    ELSE rel \cup { Row(n, d, t) }

\* INSERT ... ON CONFLICT (name) DO UPDATE SET data = $2
UpsertRows(rel, n, d, t) ==
    IF UniqueViolation(rel, n)
    THEN { IF r.name = n THEN [r EXCEPT !.data = d] ELSE r : r \in rel }
    ELSE rel \cup { Row(n, d, t) }

\* INSERT ... ON CONFLICT (name) DO NOTHING
InsertIgnore(rel, n, d, t) ==
    IF UniqueViolation(rel, n) THEN rel ELSE rel \cup { Row(n, d, t) }

DeleteEverything(rel, n) == IF RowsNamed(rel, n) # {} THEN {} ELSE rel

\* DELETE FROM web_skyling_templates WHERE name = $1
DeleteRows(rel, n) == rel \ RowsNamed(rel, n)

UpdateStampsNow(rel, final, d, old) ==
    { Row(final, d, now) : r \in RowsNamed(rel, old) }

\* UPDATE ... SET name = $1, data = $2 WHERE name = $3: the rows written
UpdatedRows(rel, final, d, old) ==
    { [r EXCEPT !.name = final, !.data = d] : r \in RowsNamed(rel, old) }

RECURSIVE ListingsAscending(_)
ListingsAscending(rel) ==
    IF rel = {} THEN { << >> }
    ELSE LET newest == { r \in rel : \A o \in rel : r.created_at >= o.created_at }
         IN  UNION { { Append(s, r) : s \in ListingsAscending(rel \ {r}) } :
                     r \in newest }

\* SELECT * ... ORDER BY created_at DESC: every row once, newest first;
\* rows of equal created_at come in an order the store chooses.
RECURSIVE Listings(_)
Listings(rel) ==
    IF rel = {} THEN { << >> }
    ELSE LET oldest == { r \in rel : \A o \in rel : r.created_at <= o.created_at }
         IN  UNION { { Append(s, r) : s \in Listings(rel \ {r}) } : r \in oldest }

\* -------------------------------------------------------------- requests
\* A handler's locals (name = oldName of a rename), its position, its
\* response (status, body), and what became of its transaction: updated is
\* the number of rows its committed UPDATE changed, raced records that it
\* passed its checks beside another rename to the same new name, repeat
\* that the observed caller's previous request was the same call on the
\* same name and was answered 200, listed that the list an upsert returned
\* held a template of its name with its data.  conn counts the clients of
\* the pool the handler holds: those it took with pool.connect() less its
\* calls of client.release().
Idle ==
    [op |-> "none", pc |-> "idle", name |-> "", newName |-> "", data |-> "d1",
     status |-> 0, body |-> << >>, updated |-> 0, conn |-> 0,
     collisionChecked |-> FALSE, faulted |-> FALSE, raced |-> FALSE,
     repeat |-> FALSE, listed |-> FALSE]

Free(p) == req[p].pc \in {"idle", "done"}

FinalNameNoFallback(r) == r.newName

\* const finalName = newName || oldName
FinalName(r) == IF r.newName # "" THEN r.newName ELSE r.name

\* A statement fails when its table is missing or the store is unavailable.
Fails(f) == f \/ ~tables

\* The positions whose statements still read the request's parameters.
ReadsParams == {"begin", "check", "collision", "update", "commit", "insert", "delete"}

\* The handler at `label`.  For the observed caller the request and its
\* history are kept to the end; otherwise parameters no statement will read
\* again are dropped (an upsert's are kept for its list query, to tell
\* what the list holds).
At(r, label) ==
    IF observed \/ label \in ReadsParams \/ (label = "list" /\ r.op = "upsert")
    THEN [r EXCEPT !.pc = label]
    ELSE [Idle EXCEPT !.pc = label, !.op = r.op, !.conn = r.conn,
                      !.updated = r.updated, !.raced = r.raced,
                      !.listed = r.listed]

Goto(p, label) == req' = [req EXCEPT ![p] = At(req[p], label)]

\* A statement threw: control passes to the catch block at `label`.
Fault(p, label) ==
    req' = [req EXCEPT ![p] = At([req[p] EXCEPT !.faulted = observed], label)]

\* The list holds a template named n that carries d.
Lists(s, n, d) == \E i \in 1..Len(s) : s[i].name = n /\ s[i].data = d

\* res.status(code).json(...): the response leaves the handler.
Answer(r, code, list) ==
    [At(r, "done") EXCEPT !.status = code,
                          !.body = IF observed THEN list ELSE << >>,
                          !.listed = /\ r.op = "upsert"
                                     /\ code = 200
                                     /\ Lists(list, r.name, r.data)]

Respond(p, code, list) == req' = [req EXCEPT ![p] = Answer(req[p], code, list)]

\* finally { client.release() }: the client goes back to the pool.
ReleaseSkipped(r) == r

Release(r) == [r EXCEPT !.conn = @ - 1]

\* A response from inside the inner try of the rename handler: the finally
\* block runs on the way out, whether by return or by throw.
RespondFinally(p, code, list) ==
    req' = [req EXCEPT ![p] = Release(Answer(req[p], code, list))]

\* catch (e) { res.status(500).json({ error: "Database error" }) }
Fail500(p) ==
    req' = [req EXCEPT ![p] =
              Answer([req[p] EXCEPT !.faulted = observed], 500, << >>)]

\* ------------------------------------------------------ web_skyling_config
\* A request's value may be missing: the driver stores a missing parameter
\* as NULL.
Undefined == "(undefined)"
Null == "(null)"

\* The keys and values of the requests.  "__proto__" is a key like any other
\* to the store and the name of the prototype accessor to the handler of
\* GET /api/defaults.
Keys == {"structure", "systemPrompt", "__proto__"}
Values == {"X", "Y", "", Undefined}

\* The texts initDB may read from the seed files, by key, in the order of
\* seedData's entries.
SeedOrder == << "structure", "systemPrompt" >>
SeedFiles ==
    { [structure |-> "", systemPrompt |-> ""],
      [structure |-> "", systemPrompt |-> "X"],
      [structure |-> "X", systemPrompt |-> "Y"] }

Entry(k, v) == [key |-> k, value |-> v]

EntriesOf(rel, k) == { r \in rel : r.key = k }

KeysOf(rel) == { r.key : r \in rel }

Param(v) == IF v = Undefined THEN Null ELSE v

\* if (value): the seed texts that are inserted.
Truthy(v) == v \notin {"", Undefined, Null}

NoKeyViolation(rel, k) == FALSE

\* key TEXT PRIMARY KEY
KeyViolation(rel, k) == EntriesOf(rel, k) # {}

\* INSERT ... ON CONFLICT (key) DO UPDATE SET value = $2
ConfigUpsertRows(rel, k, v) ==
    IF KeyViolation(rel, k)
    THEN { IF r.key = k THEN [r EXCEPT !.value = Param(v)] ELSE r : r \in rel }
    ELSE rel \cup { Entry(k, Param(v)) }

\* const config = {}; rows.forEach(row => { config[row.key] = row.value }):
\* an own property per key, of the last row of that key; assigning a string
\* or null to "__proto__" creates no property.
ConfigObject(rel) ==
    [k \in KeysOf(rel) \ {"__proto__"} |->
        (CHOOSE r \in rel : r.key = k).value]

\* for (const [key, value] of Object.entries(seedData)) if (value) ...
RECURSIVE SeedRows(_, _)
SeedRows(file, keys) ==
    IF keys = << >> THEN << >>
    ELSE LET k == Head(keys)
         IN  (IF Truthy(file[k]) THEN << Entry(k, file[k]) >> ELSE << >>)
             \o SeedRows(file, Tail(keys))

\* The configuration caller's request: its body, position and response, and
\* (history) last, what its previous request set when that was a
\* PUT /api/config answered 200, with the relation that request found.
ConfigIdle ==
    [op |-> "none", pc |-> "idle", key |-> "", value |-> "", status |-> 0,
     result |-> << >>, last |-> << >>]

\* initDB before its first statement on web_skyling_config: position, rows
\* still to insert, rows inserted, and (history) mixed, whether a row was
\* inserted beside an entry the seeding had not inserted.
SeedStart == [pc |-> "create", todo |-> << >>, put |-> {}, mixed |-> FALSE]

\* ----------------------------------------------------------- /api/generate
\* A chunk of the vendor stream: with or without a delta, whose content is
\* a text (a sequence of letters), possibly empty.
Chunks ==
    { [delta |-> FALSE, content |-> << >>],
      [delta |-> TRUE, content |-> << >>],
      [delta |-> TRUE, content |-> << "a" >>],
      [delta |-> TRUE, content |-> << "b", "a" >>] }

Streams == UNION { [1..n -> Chunks] : n \in 0..MaxChunks }

ContentFirstLetter(c) ==
    IF c.delta /\ c.content # << >> THEN << Head(c.content) >> ELSE << >>

\* const content = chunk.choices[0]?.delta?.content || ""
ContentOf(c) == IF c.delta THEN c.content ELSE << >>

\* The generate request: the key in use, the chunks the stream has still to
\* yield and (history) all of them, the text written with res.write, the
\* JSON error sent instead, and how often the response was ended.
GenIdle ==
    [pc |-> "idle", envKey |-> "", key |-> "", stream |-> << >>, all |-> << >>,
     written |-> << >>, headersSent |-> FALSE, status |-> 0, json |-> "",
     ended |-> 0, failed |-> FALSE]

\* ------------------------------------------------------------- the session
Clients == {"c1", "c2"}

\* A path by its segments: "/" is the empty path.
Root == << >>
ApiLogin == << "api", "login" >>
ApiLogout == << "api", "logout" >>
ApiTemplates == << "api", "templates" >>
ApiConfig == << "api", "config" >>
ApiDefaults == << "api", "defaults" >>
ApiGenerate == << "api", "generate" >>

\* const publicRoutes = ['/api/login', '/login.html', '/style.css', '/favicon.ico']
PublicRoutes ==
    { ApiLogin, << "login.html" >>, << "style.css" >>, << "favicon.ico" >> }

\* The paths of the requests: the routes, the pages, and a route written
\* in capitals (the router matches it, the middleware compares as written).
Paths ==
    { Root, << "index.html" >>, << "login.html" >>, << "app.js" >>,
      ApiLogin, ApiLogout, ApiTemplates, ApiConfig, ApiDefaults, ApiGenerate,
      << "API", "config" >> }

\* req.path.startsWith('/api/')
StartsWithApi(path) == Len(path) >= 2 /\ path[1] = "api"

GateTrustsApi(path, logged) ==
    IF path \in PublicRoutes \/ StartsWithApi(path) THEN "next"
    ELSE IF logged THEN "next"
    ELSE IF path \in { Root, << "index.html" >> } THEN "login.html"
    ELSE "redirect"

\* The intercepting middleware: what becomes of a request.
Gate(path, logged) ==
    IF path \in PublicRoutes THEN "next"
    ELSE IF logged THEN "next"
    ELSE IF path \in { Root, << "index.html" >> } THEN "login.html"
    ELSE IF StartsWithApi(path) THEN "401"
    ELSE "redirect"

\* The router matches without regard to case.
Lower(segment) == IF segment = "API" THEN "api" ELSE segment

\* The handler a request let through reaches: express.static for a file
\* of public/, else the route of its path, each path asked with the method
\* of its route.
RouteOf(path) ==
    LET q == [i \in 1..Len(path) |-> Lower(path[i])]
    IN  IF path \in { Root, << "index.html" >>, << "login.html" >>,
                      << "app.js" >>, << "style.css" >> } THEN "static"
        ELSE IF q = ApiLogin THEN "login"
        ELSE IF q = ApiLogout THEN "logout"
        ELSE IF q = ApiTemplates THEN "templates"
        ELSE IF q = ApiConfig THEN "config"
        ELSE IF q = ApiDefaults THEN "defaults"
        ELSE IF q = ApiGenerate THEN "generate"
        ELSE "none"

\* The environments the server may run in; "" is a variable not set.
Environments ==
    { [user |-> "", pass |-> ""],
      [user |-> "admin", pass |-> ""],
      [user |-> "admin", pass |-> "pw"] }

\* A session: its user ("" for none) and (history) out, that its last
\* login or logout answered 200 was a logout.
NoSession == [user |-> "", out |-> FALSE]

\* The last request: who sent what, the handler it reached and the answer
\* of the step that took it in.
NoRequest ==
    [client |-> "c1", path |-> Root, username |-> "", password |-> "",
     reached |-> "none", answer |-> "none"]

\* ------------------------------------------------------ public/app.js
\* The names of the templates the page deals with, and the texts typed into
\* the name field.
PageNames == {"A", "B"}
NameTexts == {"", "A", "B", " A"}

\* String.prototype.trim over the texts of the name field.
Trim(v) == IF v = " A" THEN "A" ELSE v

\* let templates: an array of templates, told by their names, or a value
\* that is no array (undefined, an error object).
Array(names) == [array |-> TRUE, names |-> names]
NoArray == [array |-> FALSE, names |-> << >>]

Range(seq) == { seq[i] : i \in 1..Len(seq) }

\* The lists a route can answer with: rows of distinct names in any order.
Lists200 ==
    { l \in UNION { [1..n -> PageNames] : n \in 0..Cardinality(PageNames) } :
        Cardinality(Range(l)) = Len(l) }

\* The state of the page when the script has run (templates = [],
\* currentTemplateName = "") and fetchTemplates() is waiting for its
\* response: the select holds its placeholder only.  The first state of the
\* buttons is the markup's; it is taken as disabled, as the empty
\* currentTemplateName calls for.
NoHandler == [h |-> "none", ok |-> TRUE]
PageIdle ==
    [templates |-> Array(<< >>), currentTemplateName |-> "", nameInput |-> "",
     options |-> << >>, renameDisabled |-> TRUE, deleteDisabled |-> TRUE,
     calls |-> {}, last |-> NoHandler]

Call(h, name) == [h |-> h, name |-> name]

PageStart == [PageIdle EXCEPT !.calls = {Call("load", "")}]

\* function updateButtonStates()
UpdateButtonStates(u) ==
    [u EXCEPT !.renameDisabled = u.currentTemplateName = "",
              !.deleteDisabled = u.currentTemplateName = ""]

\* function renderTemplateSelect(): the options are rebuilt from templates;
\* templates.forEach throws when templates is no array, after the select
\* was emptied and before anything else was done.
RenderTemplateSelect(u) ==
    IF ~u.templates.array
    THEN [u EXCEPT !.options = << >>]
    ELSE UpdateButtonStates(
            [u EXCEPT !.options = u.templates.names,
                      !.currentTemplateName =
                          IF @ # "" /\ @ \in Range(u.templates.names)
                          THEN @ ELSE ""])

\* A handler has run to its end: h names it, ok tells that it met no
\* failed response.
Finished(u, h, ok) == [u EXCEPT !.last = [h |-> h, ok |-> ok]]

\* The handler goes on when the fetch it awaits is answered.
Await(u, h, name) == [u EXCEPT !.calls = @ \cup {Call(h, name)}]

SideInit ==
    /\ page = PageIdle
    /\ creds = [user |-> "", pass |-> ""]
    /\ session = [c \in Clients |-> NoSession]
    /\ areq = NoRequest
    /\ gen = GenIdle
    /\ configTable = FALSE
    /\ config = {}
    /\ seed = SeedStart
    /\ creq = ConfigIdle
    /\ cpre = {}

Init ==
    /\ SideInit
    /\ tables = FALSE
    /\ templates = {}
    /\ now = 0
    /\ txn = [p \in Procs |-> NoWrite]
    /\ req = [p \in Procs |-> Idle]
    /\ boot = [pc |-> "create", todo |-> << >>]
    /\ observed = FALSE
    /\ pre = {}

InitSerial ==
    /\ SideInit
    /\ tables = FALSE
    /\ templates = {}
    /\ now = 0
    /\ txn = [p \in Procs |-> NoWrite]
    /\ req = [p \in Procs |-> Idle]
    /\ boot = [pc |-> "create", todo |-> << >>]
    /\ observed = TRUE
    /\ pre = {}

\* ------------------------------------------------- the arrival of a request
Repeats(p, op, n) ==
    /\ observed
    /\ req[p].pc = "done"
    /\ req[p].op = op
    /\ req[p].name = n
    /\ req[p].status = 200

PostTemplateUnchecked(p, n, d) ==
    /\ Free(p)
    /\ req' = [req EXCEPT ![p] =
                 [Idle EXCEPT !.op = "upsert", !.pc = "insert",
                              !.name = n, !.data = d,
                              !.repeat = Repeats(p, "upsert", n)]]

\* app.post('/api/templates'): a missing name is answered before any query.
PostTemplate(p, n, d) ==
    /\ Free(p)
    /\ req' = [req EXCEPT ![p] =
                 IF n = ""
                 THEN Answer([Idle EXCEPT !.op = "upsert", !.data = d], 400, << >>)
                 ELSE [Idle EXCEPT !.op = "upsert", !.pc = "insert",
                                   !.name = n, !.data = d,
                                   !.repeat = Repeats(p, "upsert", n)]]

PutTemplate(p, old, new, d) ==
    /\ Free(p)
    /\ req' = [req EXCEPT ![p] =
                 [Idle EXCEPT !.op = "rename", !.pc = "begin", !.name = old,
                              !.newName = new, !.data = d]]

DeleteTemplate(p, n) ==
    /\ Free(p)
    /\ req' = [req EXCEPT ![p] =
                 [Idle EXCEPT !.op = "delete", !.pc = "delete", !.name = n,
                              !.repeat = Repeats(p, "delete", n)]]

GetTemplates(p) ==
    /\ Free(p)
    /\ req' = [req EXCEPT ![p] = [Idle EXCEPT !.op = "list", !.pc = "select"]]

Arrive(p, D) ==
    /\ \/ \E n \in Names \cup {""}, d \in D : PostTemplate(p, n, d)
       \/ \E old \in Names, new \in Names \cup {""}, d \in D :
             PutTemplate(p, old, new, d)
       \/ \E n \in Names : DeleteTemplate(p, n)
       \/ GetTemplates(p)
    /\ pre' = IF observed THEN templates ELSE pre
    /\ UNCHANGED << tables, templates, now, txn, boot, observed, side >>

\* ------------------------------------------------------ GET /api/templates
ListSelect(p) ==
    /\ req[p].pc = "select"
    /\ \E f \in BOOLEAN :
          IF Fails(f)
          THEN Fail500(p)
          ELSE \E s \in Listings(templates) : Respond(p, 200, s)
    /\ UNCHANGED << tables, templates, now, txn, boot, observed, pre, side >>

\* ----------------------------------------------------- POST /api/templates
UpsertInsertClobbers(p) ==
    /\ req[p].pc = "insert"
    /\ \E f \in BOOLEAN :
          IF Fails(f)
          THEN Fail500(p) /\ UNCHANGED templates
          ELSE /\ req[p].name \notin HeldByOthers(p)
               /\ templates' = { Row(req[p].name, req[p].data, now) }
               /\ Goto(p, "list")
    /\ UNCHANGED << tables, now, txn, boot, observed, pre, side >>

\* INSERT ... ON CONFLICT (name) DO UPDATE, then on to the list query.
UpsertInsert(p) ==
    /\ req[p].pc = "insert"
    /\ \E f \in BOOLEAN :
          IF Fails(f)
          THEN Fail500(p) /\ UNCHANGED templates
          ELSE /\ req[p].name \notin HeldByOthers(p)
               /\ templates' = UpsertRows(templates, req[p].name, req[p].data, now)
               /\ Goto(p, "list")
    /\ UNCHANGED << tables, now, txn, boot, observed, pre, side >>

\* const result = await pool.query('SELECT * ...'); res.json(result.rows)
UpsertList(p) ==
    /\ req[p].pc = "list"
    /\ req[p].op = "upsert"
    /\ \E f \in BOOLEAN :
          IF Fails(f)
          THEN Fail500(p)
          ELSE \E s \in Listings(templates) :
                  Respond(p, 200, s)
    /\ UNCHANGED << tables, templates, now, txn, boot, observed, pre, side >>

\* ------------------------------------------- DELETE /api/templates/:name
DeleteExec(p) ==
    /\ req[p].pc = "delete"
    /\ \E f \in BOOLEAN :
          IF Fails(f)
          THEN Fail500(p) /\ UNCHANGED templates
          ELSE /\ \A q \in Procs \ {p} : req[p].name \notin NamesOf(txn[q].del)
               /\ templates' = DeleteRows(templates, req[p].name)
               /\ Goto(p, "list")
    /\ UNCHANGED << tables, now, txn, boot, observed, pre, side >>

DeleteList(p) ==
    /\ req[p].pc = "list"
    /\ req[p].op = "delete"
    /\ \E f \in BOOLEAN :
          IF Fails(f)
          THEN Fail500(p)
          ELSE \E s \in Listings(templates) : Respond(p, 200, s)
    /\ UNCHANGED << tables, templates, now, txn, boot, observed, pre, side >>

\* --------------------------------------------- PUT /api/templates/:oldName
\* const client = await pool.connect(); await client.query('BEGIN').
\* Neither reads nor writes the relation, so the two awaits are one step: a
\* failed connect is caught by the outer try with no client checked out,
\* a failed BEGIN by the inner catch.
RenameBegin(p) ==
    /\ req[p].pc = "begin"
    /\ \E connected \in BOOLEAN, f \in BOOLEAN :
          IF ~connected THEN Fail500(p)
          ELSE IF f
               THEN req' = [req EXCEPT ![p] =
                              At([req[p] EXCEPT !.conn = @ + 1, !.faulted = observed],
                                 "catch")]
          ELSE req' = [req EXCEPT ![p].conn = @ + 1, ![p].pc = "check"]
    /\ UNCHANGED << tables, templates, now, txn, boot, observed, pre, side >>

\* The renames that have passed their checks beside p: another source, the
\* same new name, both sources stored and the new name free.
Rivals(p, final) ==
    { q \in Procs \ {p} :
        /\ req[q].op = "rename"
        /\ req[q].pc \in {"update", "commit"}
        /\ FinalName(req[q]) = final
        /\ req[q].name # req[p].name
        /\ RowsNamed(templates, req[p].name) # {}
        /\ RowsNamed(templates, req[q].name) # {}
        /\ req[q].pc = "commit" => txn[q].ins # {} }

\* The checks are passed: on to the UPDATE.
ToUpdate(p, checked) ==
    LET rivals == Rivals(p, FinalName(req[p]))
    IN  req' = [q \in Procs |->
                  IF q = p
                  THEN [req[p] EXCEPT !.pc = "update",
                                      !.collisionChecked = checked,
                                      !.raced = checked /\ rivals # {}]
                  ELSE IF checked /\ q \in rivals
                       THEN [req[q] EXCEPT !.raced = TRUE]
                       ELSE req[q]]

RenameCheckCollisionFirst(p) ==
    /\ req[p].pc = "check"
    /\ \E f \in BOOLEAN :
          IF Fails(f) THEN Fault(p, "catch")
          ELSE IF req[p].newName # "" /\ req[p].newName # req[p].name
               THEN Goto(p, "collision")
          ELSE IF RowsNamed(templates, req[p].name) = {}
               THEN Goto(p, "rollback404")
          ELSE ToUpdate(p, FALSE)
    /\ UNCHANGED << tables, templates, now, txn, boot, observed, pre, side >>

\* SELECT ... WHERE name = oldName; no row: ROLLBACK and 404.
RenameCheck(p) ==
    /\ req[p].pc = "check"
    /\ \E f \in BOOLEAN :
          IF Fails(f) THEN Fault(p, "catch")
          ELSE IF RowsNamed(templates, req[p].name) = {}
               THEN Goto(p, "rollback404")
          ELSE IF req[p].newName # "" /\ req[p].newName # req[p].name
               THEN Goto(p, "collision")
          ELSE ToUpdate(p, FALSE)
    /\ UNCHANGED << tables, templates, now, txn, boot, observed, pre, side >>

RenameCollisionSkipped(p) ==
    /\ req[p].pc = "collision"
    /\ \E f \in BOOLEAN :
          IF Fails(f) THEN Fault(p, "catch") ELSE ToUpdate(p, TRUE)
    /\ UNCHANGED << tables, templates, now, txn, boot, observed, pre, side >>

\* SELECT ... WHERE name = newName; a row: ROLLBACK and 400.
RenameCollision(p) ==
    /\ req[p].pc = "collision"
    /\ \E f \in BOOLEAN :
          IF Fails(f) THEN Fault(p, "catch")
          ELSE IF RowsNamed(templates, req[p].newName) # {}
               THEN req' = [req EXCEPT ![p] =
                              At([req[p] EXCEPT !.collisionChecked = TRUE],
                                 "rollback400")]
               ELSE ToUpdate(p, TRUE)
    /\ UNCHANGED << tables, templates, now, txn, boot, observed, pre, side >>

\* UPDATE ... SET name = finalName, data = $2 WHERE name = oldName.  It
\* waits for a transaction that holds the row or the new name, writes the
\* rows that are then committed under oldName, and is refused by the
\* unique index when the new name is taken.
RenameUpdate(p) ==
    /\ req[p].pc = "update"
    /\ LET old     == req[p].name
           final   == FinalName(req[p])
           written == UpdatedRows(templates, final, req[p].data, old)
       IN  \E f \in BOOLEAN :
             IF Fails(f) THEN Fault(p, "catch") /\ UNCHANGED txn
             ELSE /\ \A q \in Procs \ {p} : old \notin NamesOf(txn[q].del)
                  /\ IF written = {}
                     THEN Goto(p, "commit") /\ UNCHANGED txn
                     ELSE /\ final # old => final \notin HeldByOthers(p)
                          /\ IF final # old /\ UniqueViolation(templates, final)
                             THEN Goto(p, "catch") /\ UNCHANGED txn
                             ELSE /\ txn' = [txn EXCEPT ![p] =
                                               [del |-> RowsNamed(templates, old),
                                                ins |-> written]]
                                  /\ Goto(p, "commit")
    /\ UNCHANGED << tables, templates, now, boot, observed, pre, side >>

\* COMMIT publishes the transaction's write; a failed COMMIT loses it.
RenameCommit(p) ==
    /\ req[p].pc = "commit"
    /\ \E f \in BOOLEAN :
          IF f
          THEN Fault(p, "catch") /\ UNCHANGED templates
          ELSE /\ templates' = (templates \ txn[p].del) \cup txn[p].ins
               /\ req' = [req EXCEPT ![p] =
                            At([req[p] EXCEPT !.updated = Cardinality(txn[p].ins)],
                               "list")]
    /\ txn' = [txn EXCEPT ![p] = NoWrite]
    /\ UNCHANGED << tables, now, boot, observed, pre, side >>

\* The SELECT of the whole list after COMMIT, and the 200 response.
RenameList(p) ==
    /\ req[p].pc = "list"
    /\ req[p].op = "rename"
    /\ \E f \in BOOLEAN :
          IF Fails(f) THEN Fault(p, "catch")
          ELSE \E s \in Listings(templates) : RespondFinally(p, 200, s)
    /\ UNCHANGED << tables, templates, now, txn, boot, observed, pre, side >>

\* ROLLBACK and the early return of the 404 and 400 branches; a ROLLBACK
\* that throws lands in the catch block.
RenameRollback(p) ==
    /\ req[p].pc \in {"rollback404", "rollback400"}
    /\ \E f \in BOOLEAN :
          IF f THEN Fault(p, "catch")
          ELSE RespondFinally(p, IF req[p].pc = "rollback404" THEN 404 ELSE 400,
                              << >>)
    /\ txn' = [txn EXCEPT ![p] = NoWrite]
    /\ UNCHANGED << tables, templates, now, boot, observed, pre, side >>

\* catch: ROLLBACK, rethrow; finally: client.release(); outer catch: 500.
\* The transaction ends whether or not the ROLLBACK itself is answered.
RenameCatch(p) ==
    /\ req[p].pc = "catch"
    /\ RespondFinally(p, 500, << >>)
    /\ txn' = [txn EXCEPT ![p] = NoWrite]
    /\ UNCHANGED << tables, templates, now, boot, observed, pre, side >>

\* ----------------------------------------------------------------- initDB
BootEnd == boot' = [pc |-> "done", todo |-> << >>]

\* CREATE TABLE IF NOT EXISTS web_skyling_templates
BootCreate ==
    /\ boot.pc = "create"
    /\ \E f \in BOOLEAN :
          IF f THEN BootEnd /\ UNCHANGED tables
          ELSE tables' = TRUE /\ boot' = [boot EXCEPT !.pc = "count"]
    /\ UNCHANGED << templates, now, txn, req, observed, pre, side >>

\* SELECT COUNT(*): the migration runs only into an empty table, over the
\* array then read from templates.json.
BootCount ==
    /\ boot.pc = "count"
    /\ \E f \in BOOLEAN, file \in JsonFiles :
          IF Fails(f) \/ templates # {} \/ file = << >>
          THEN BootEnd
          ELSE boot' = [pc |-> "migrate", todo |-> file]
    /\ UNCHANGED << tables, templates, now, txn, req, observed, pre, side >>

\* for (const t of jsonTemplates) INSERT ... ON CONFLICT (name) DO NOTHING
BootMigrate ==
    /\ boot.pc = "migrate"
    /\ LET t == Head(boot.todo)
       IN  \E f \in BOOLEAN :
             IF Fails(f) THEN BootEnd /\ UNCHANGED templates
             ELSE /\ t.name \notin HeldByOthers("initDB")
                  /\ templates' = InsertIgnore(templates, t.name, t.data, now)
                  /\ IF Tail(boot.todo) = << >> THEN BootEnd
                     ELSE boot' = [boot EXCEPT !.todo = Tail(boot.todo)]
    /\ UNCHANGED << tables, now, txn, req, observed, pre, side >>

\* The store's clock advances.
Tick ==
    /\ now < MaxClock
    /\ now' = now + 1
    /\ UNCHANGED << tables, templates, txn, req, boot, observed, pre, side >>

\* ------------------------------------------------------- the specifications
Handle(p) ==
    \/ ListSelect(p)
    \/ UpsertInsert(p)
    \/ UpsertList(p)
    \/ DeleteExec(p)
    \/ DeleteList(p)
    \/ RenameBegin(p)
    \/ RenameCheck(p)
    \/ RenameCollision(p)
    \/ RenameUpdate(p)
    \/ RenameCommit(p)
    \/ RenameList(p)
    \/ RenameRollback(p)
    \/ RenameCatch(p)

InitDB == BootCreate \/ BootCount \/ BootMigrate

\* Any number of requests in flight, initDB running beside them.
Next ==
    \/ \E p \in Procs : Arrive(p, {"d1"})
    \/ \E p \in Procs : Handle(p)
    \/ InitDB

Spec == Init /\ [][Next]_vars

\* One caller, one request at a time, on the store as initDB left it: the
\* first request arrives when initDB has ended or has got as far as it gets.
SerialRequest == Arrive(SeqProc, Payloads)

SerialInitDB == req[SeqProc].pc = "idle" /\ InitDB

SerialNext ==
    \/ SerialRequest
    \/ Handle(SeqProc)
    \/ SerialInitDB
    \/ Tick

SpecSerial == InitSerial /\ [][SerialNext]_vars

\* One caller again, with one payload and a clock that tells three creation
\* times apart.
TickList ==
    /\ now < MaxListClock
    /\ now' = now + 1
    /\ UNCHANGED << tables, templates, txn, req, boot, observed, pre, side >>

ListNext ==
    \/ Arrive(SeqProc, {"d1"})
    \/ Handle(SeqProc)
    \/ SerialInitDB
    \/ TickList

SpecList == InitSerial /\ [][ListNext]_vars

\* -------------------------------------------- PUT /api/config, GET /api/defaults
ConfigLast ==
    IF creq.pc = "done" /\ creq.op = "set" /\ creq.status = 200
    THEN << [key |-> creq.key, value |-> creq.value, before |-> cpre] >>
    ELSE << >>

ConfigFree == creq.pc \in {"idle", "done"}

\* app.put('/api/config'): if (!key) return res.status(400)
PutConfig(k, v) ==
    /\ ConfigFree
    /\ creq' = [ConfigIdle EXCEPT !.op = "set", !.key = k, !.value = v,
                                  !.pc = IF k = "" THEN "done" ELSE "upsert",
                                  !.status = IF k = "" THEN 400 ELSE 0]
    /\ cpre' = config
    /\ UNCHANGED << configTable, config, seed >>

ConfigFails(f) == f \/ ~configTable

ConfigUpsert ==
    /\ creq.pc = "upsert"
    /\ \E f \in BOOLEAN :
          IF ConfigFails(f)
          THEN /\ creq' = [creq EXCEPT !.pc = "done", !.status = 500]
               /\ UNCHANGED config
          ELSE /\ config' = ConfigUpsertRows(config, creq.key, creq.value)
               /\ creq' = [creq EXCEPT !.pc = "done", !.status = 200]
    /\ UNCHANGED << configTable, seed, cpre, store, gen, auth, page >>

\* app.get('/api/defaults')
GetDefaults ==
    /\ ConfigFree
    /\ creq' = [ConfigIdle EXCEPT !.op = "get", !.pc = "select",
                                  !.last = ConfigLast]
    /\ cpre' = config
    /\ UNCHANGED << configTable, config, seed >>

DefaultsSelect ==
    /\ creq.pc = "select"
    /\ \E f \in BOOLEAN :
          IF ConfigFails(f)
          THEN creq' = [creq EXCEPT !.pc = "done", !.status = 500]
          ELSE creq' = [creq EXCEPT !.pc = "done", !.status = 200,
                                    !.result = ConfigObject(config)]
    /\ UNCHANGED << configTable, config, seed, cpre, store, gen, auth, page >>

\* ---------------------------------------------- initDB: the configuration
SeedEnd(label) == seed' = [seed EXCEPT !.pc = label, !.todo = << >>]

\* CREATE TABLE IF NOT EXISTS web_skyling_config
SeedCreate ==
    /\ seed.pc = "create"
    /\ \E f \in BOOLEAN :
          IF f THEN SeedEnd("failed") /\ UNCHANGED configTable
          ELSE configTable' = TRUE /\ seed' = [seed EXCEPT !.pc = "count"]
    /\ UNCHANGED << config, creq, cpre, store, gen, auth, page >>

\* SELECT COUNT(*) FROM web_skyling_config: on 0 the seed files are read.
SeedCount ==
    /\ seed.pc = "count"
    /\ \E f \in BOOLEAN, file \in SeedFiles :
          IF ConfigFails(f) THEN SeedEnd("failed")
          ELSE IF config # {} \/ SeedRows(file, SeedOrder) = << >>
               THEN SeedEnd("done")
               ELSE seed' = [seed EXCEPT !.pc = "insert",
                                         !.todo = SeedRows(file, SeedOrder)]
    /\ UNCHANGED << configTable, config, creq, cpre, store, gen, auth, page >>

\* INSERT INTO web_skyling_config (key, value) VALUES ($1, $2): a taken key
\* is a primary key violation, thrown to initDB's catch.
SeedInsert ==
    /\ seed.pc = "insert"
    /\ LET r == Head(seed.todo)
       IN  \E f \in BOOLEAN :
             IF ConfigFails(f) \/ KeyViolation(config, r.key)
             THEN SeedEnd("failed") /\ UNCHANGED config
             ELSE /\ config' = config \cup {r}
                  /\ seed' = [seed EXCEPT
                                !.pc = IF Tail(seed.todo) = << >> THEN "done"
                                       ELSE "insert",
                                !.todo = Tail(seed.todo),
                                !.put = seed.put \cup {r},
                                !.mixed = seed.mixed \/ config \ seed.put # {}]
    /\ UNCHANGED << configTable, creq, cpre, store, gen, auth, page >>

SeedConfig == SeedCreate \/ SeedCount \/ SeedInsert

ConfigRequest ==
    /\ \/ \E k \in Keys \cup {""}, v \in Values : PutConfig(k, v)
       \/ GetDefaults
    /\ UNCHANGED << store, gen, auth, page >>

\* One caller of the configuration routes, on the store as the seeding left
\* it.
ConfigNext ==
    \/ ConfigRequest
    \/ ConfigUpsert
    \/ DefaultsSelect
    \/ (creq.pc = "idle" /\ SeedConfig)

SpecConfig == Init /\ [][ConfigNext]_vars

\* The whole store: initDB in the order of its statements (both tables are
\* created, then the configuration is seeded, then the templates are
\* migrated; a statement that throws ends initDB), beside a caller of the
\* configuration routes and a caller of the template routes.
StoreInitDB ==
    \/ SeedCreate
    \/ (seed.pc = "count" /\ BootCreate)
    \/ (boot.pc = "count" /\ SeedCount)
    \/ SeedInsert
    \/ (seed.pc = "done" /\ (BootCount \/ BootMigrate))

StoreTemplateRequest(p) ==
    /\ \/ PostTemplate(p, "A", "d1")
       \/ PutTemplate(p, "A", "B", "d1")
       \/ DeleteTemplate(p, "B")
       \/ GetTemplates(p)
    /\ UNCHANGED << tables, templates, now, txn, boot, observed, pre, side >>

StoreConfigRequest ==
    /\ \/ \E k \in {"structure", "systemPrompt"}, v \in {"X", "Y"} :
             PutConfig(k, v)
       \/ GetDefaults
    /\ UNCHANGED << store, gen, auth, page >>

StoreNext ==
    \/ StoreInitDB
    \/ StoreConfigRequest
    \/ ConfigUpsert
    \/ DefaultsSelect
    \/ StoreTemplateRequest("p2")
    \/ Handle("p2")

SpecStore == Init /\ [][StoreNext]_vars

\* ------------------------------------------------------ POST /api/generate
\* let keyToUse = apiKey || process.env.ANTHROPIC_OPENROUTER_API_KEY;
\* if (!keyToUse) return res.status(400).json(...)
PostGenerate(apiKey) ==
    /\ gen.pc \in {"idle", "done"}
    /\ LET keyToUse == IF apiKey # "" THEN apiKey ELSE gen.envKey
           g == [GenIdle EXCEPT !.envKey = gen.envKey, !.key = keyToUse]
       IN  gen' = IF keyToUse = ""
                  THEN [g EXCEPT !.pc = "done", !.status = 400,
                                 !.json = "Missing API Key", !.ended = 1]
                  ELSE [g EXCEPT !.pc = "create"]

\* catch (e): if (!res.headersSent) res.status(500).json(...) else res.end()
GenCatch(g) ==
    IF ~g.headersSent
    THEN [g EXCEPT !.pc = "done", !.failed = TRUE, !.stream = << >>,
                   !.status = 500, !.json = "e.message", !.ended = @ + 1]
    ELSE [g EXCEPT !.pc = "done", !.failed = TRUE, !.stream = << >>,
                   !.ended = @ + 1]

\* res.setHeader(...); const stream = await openai.chat.completions.create
GenCreate ==
    /\ gen.pc = "create"
    /\ \E f \in BOOLEAN, st \in Streams :
          IF f THEN gen' = GenCatch(gen)
          ELSE gen' = [gen EXCEPT !.pc = "stream", !.stream = st, !.all = st]
    /\ UNCHANGED << store, cfg, auth, page >>

\* for await (const chunk of stream) { ...; if (content) res.write(content) }
\* and, the stream finished, res.end()
GenChunk ==
    /\ gen.pc = "stream"
    /\ \E f \in BOOLEAN :
          IF f THEN gen' = GenCatch(gen)
          ELSE IF gen.stream = << >>
               THEN gen' = [gen EXCEPT !.pc = "done", !.ended = @ + 1,
                                       !.status = 200]
               ELSE LET content == ContentOf(Head(gen.stream))
                    IN  gen' = [gen EXCEPT
                                  !.stream = Tail(gen.stream),
                                  !.written = @ \o content,
                                  !.headersSent = @ \/ content # << >>,
                                  !.status = IF content # << >> THEN 200 ELSE @]
    /\ UNCHANGED << store, cfg, auth, page >>

GenRequest ==
    /\ \E apiKey \in {"", "k1"} : PostGenerate(apiKey)
    /\ UNCHANGED << store, cfg, auth, page >>

GenNext == GenRequest \/ GenCreate \/ GenChunk

\* The server with or without a key in its environment.
InitGen ==
    /\ page = PageIdle
    /\ \E k \in {"", "k2"} : gen = [GenIdle EXCEPT !.envKey = k]
    /\ creds = [user |-> "", pass |-> ""]
    /\ session = [c \in Clients |-> NoSession]
    /\ areq = NoRequest
    /\ configTable = FALSE
    /\ config = {}
    /\ seed = SeedStart
    /\ creq = ConfigIdle
    /\ cpre = {}
    /\ tables = FALSE
    /\ templates = {}
    /\ now = 0
    /\ txn = [p \in Procs |-> NoWrite]
    /\ req = [p \in Procs |-> Idle]
    /\ boot = [pc |-> "create", todo |-> << >>]
    /\ observed = FALSE
    /\ pre = {}

SpecGen == InitGen /\ [][GenNext]_vars

\* ------------------------------------------------- the middleware chain
LoginStatusUnguarded(u, pw) ==
    IF u = creds.user /\ pw = creds.pass THEN "200" ELSE "401"

\* app.post('/api/login'): the status of the answer
LoginStatus(u, pw) ==
    IF creds.user = "" \/ creds.pass = "" THEN "500"
    ELSE IF u = creds.user /\ pw = creds.pass THEN "200"
    ELSE "401"

\* The store serves one request at a time here.
StoreFree == Free("p2") /\ ConfigFree

\* A request of client c comes in: the intercepting middleware, and for a
\* request let through the synchronous part of its handler.
Request(c, path, u, pw) ==
    LET g == Gate(path, session[c].user # "")
        route == IF g = "next" THEN RouteOf(path) ELSE "none"
        taken == [client |-> c, path |-> path, username |-> u, password |-> pw,
                  reached |-> route, answer |-> g]
    IN  /\ UNCHANGED creds
        /\ \/ /\ route \in {"none", "static"}
              /\ areq' = taken
              /\ UNCHANGED << session, store, cfg, gen, page >>
           \/ /\ route = "login"
              /\ areq' = [taken EXCEPT !.answer = LoginStatus(u, pw)]
              /\ session' = IF LoginStatus(u, pw) = "200"
                            THEN [session EXCEPT ![c] = [user |-> u, out |-> FALSE]]
                            ELSE session
              /\ UNCHANGED << store, cfg, gen, page >>
           \/ /\ route = "logout"
              /\ \E err \in BOOLEAN :
                    IF err
                    THEN areq' = [taken EXCEPT !.answer = "500"] /\ UNCHANGED session
                    ELSE /\ areq' = [taken EXCEPT !.answer = "200"]
                         /\ session' = [session EXCEPT
                                          ![c] = [user |-> "", out |-> TRUE]]
              /\ UNCHANGED << store, cfg, gen, page >>
           \/ /\ route = "templates"
              /\ StoreFree
              /\ areq' = taken
              /\ PostTemplate("p2", "A", "d1")
              /\ UNCHANGED << tables, templates, now, txn, boot, observed, pre,
                              session, cfg, gen, page >>
           \/ /\ route = "config"
              /\ StoreFree
              /\ areq' = taken
              /\ PutConfig("systemPrompt", "X")
              /\ UNCHANGED << session, store, gen, page >>
           \/ /\ route = "defaults"
              /\ StoreFree
              /\ areq' = taken
              /\ GetDefaults
              /\ UNCHANGED << session, store, gen, page >>
           \/ /\ route = "generate"
              /\ areq' = taken
              /\ PostGenerate("")
              /\ UNCHANGED << session, store, cfg, page >>

\* cookie: { maxAge: 24 * 60 * 60 * 1000 }: the session ends with its cookie.
Expire(c) ==
    /\ session[c].user # ""
    /\ session' = [session EXCEPT ![c].user = ""]
    /\ UNCHANGED << creds, areq, store, cfg, gen, page >>

AuthNext ==
    \/ \E c \in Clients, path \in Paths \ {ApiLogin} : Request(c, path, "", "")
    \/ \E c \in Clients, u \in {"admin", ""}, pw \in {"pw", "bad", ""} :
          Request(c, ApiLogin, u, pw)
    \/ \E c \in Clients : Expire(c)
    \/ UpsertInsert("p2")
    \/ UpsertList("p2")
    \/ ConfigUpsert
    \/ DefaultsSelect

\* The server in one of its environments, initDB having ended on an empty
\* store with nothing to seed or migrate.
InitAuth ==
    /\ page = PageIdle
    /\ creds \in Environments
    /\ session = [c \in Clients |-> NoSession]
    /\ areq = NoRequest
    /\ gen = GenIdle
    /\ configTable = TRUE
    /\ config = {}
    /\ seed = [SeedStart EXCEPT !.pc = "done"]
    /\ creq = ConfigIdle
    /\ cpre = {}
    /\ tables = TRUE
    /\ templates = {}
    /\ now = 0
    /\ txn = [p \in Procs |-> NoWrite]
    /\ req = [p \in Procs |-> Idle]
    /\ boot = [pc |-> "done", todo |-> << >>]
    /\ observed = FALSE
    /\ pre = {}

SpecAuth == InitAuth /\ [][AuthNext]_vars

\* ------------------------------------------------- public/app.js: handlers
\* An input event of templateNameInput; no handler listens to it.
TypeName(v) ==
    /\ page.nameInput # v
    /\ page' = [page EXCEPT !.nameInput = v]

\* newTemplateBtn click; fetchDefaults() fills the text fields only.
ClickNew ==
    \E confirmed \in BOOLEAN :
       page' = Finished(IF confirmed
                        THEN UpdateButtonStates(
                                [page EXCEPT !.currentTemplateName = "",
                                             !.nameInput = ""])
                        ELSE page,
                        "new", TRUE)

\* saveTemplateBtn click, up to its fetch.
ClickSave ==
    LET typed      == Trim(page.nameInput)
        nameToSave == IF typed # "" THEN typed ELSE page.currentTemplateName
    IN  IF nameToSave = ""
        THEN page' = Finished(page, "save", TRUE)
        ELSE /\ Cardinality(page.calls) < MaxCalls
             /\ page' = Await(page, "save", nameToSave)

\* renameTemplateBtn click, up to its fetch; a disabled button takes no
\* click.
ClickRename ==
    /\ ~page.renameDisabled
    /\ LET newName == Trim(page.nameInput)
       IN  IF \/ page.currentTemplateName = ""
              \/ newName = ""
              \/ newName = page.currentTemplateName
           THEN page' = Finished(page, "rename", TRUE)
           ELSE /\ Cardinality(page.calls) < MaxCalls
                /\ page' = Await(page, "rename", newName)

\* deleteTemplateBtn click, up to its fetch.
ClickDelete ==
    /\ ~page.deleteDisabled
    /\ \E confirmed \in BOOLEAN :
          IF page.currentTemplateName = "" \/ ~confirmed
          THEN page' = Finished(page, "delete", TRUE)
          ELSE /\ Cardinality(page.calls) < MaxCalls
               /\ page' = Await(page, "delete", "")

\* templateSelect change to one of its options or to the placeholder;
\* templates.find throws when templates is no array.
SelectChange(selectedName) ==
    /\ selectedName \in Range(page.options) \cup {""}
    /\ page' =
          IF selectedName = ""
          THEN Finished(UpdateButtonStates(
                           [page EXCEPT !.currentTemplateName = "",
                                        !.nameInput = ""]),
                        "select", TRUE)
          ELSE IF ~page.templates.array
               THEN Finished(page, "select", TRUE)
          ELSE IF selectedName \in Range(page.templates.names)
               THEN Finished(UpdateButtonStates(
                                [page EXCEPT !.currentTemplateName = selectedName,
                                             !.nameInput = selectedName]),
                             "select", TRUE)
          ELSE Finished(UpdateButtonStates(page), "select", TRUE)

\* What a fetch of the page comes back with: a 200 with the rows, a JSON
\* error body (400, 401, 404, 500), or no response at all (fetch rejects).
Responses ==
    { [kind |-> "rows", rows |-> l] : l \in Lists200 }
       \cup { [kind |-> k, rows |-> << >>] : k \in {"error", "rejected"} }

Taken(c) == [page EXCEPT !.calls = @ \ {c}]

\* fetchTemplates() after its fetch: templates = await res.json(), whatever
\* the status.
LoadResponse(c, r) ==
    /\ c.h = "load"
    /\ page' =
          CASE r.kind = "rows" ->
                 Finished(RenderTemplateSelect(
                             [Taken(c) EXCEPT !.templates = Array(r.rows)]),
                          "load", TRUE)
            [] r.kind = "error" ->
                 Finished(RenderTemplateSelect(
                             [Taken(c) EXCEPT !.templates = NoArray]),
                          "load", FALSE)
            [] OTHER -> Finished(Taken(c), "load", FALSE)

\* The save handler after its fetch: !res.ok throws before anything is set.
SaveResponse(c, r) ==
    /\ c.h = "save"
    /\ page' =
          IF r.kind = "rows"
          THEN Finished(RenderTemplateSelect(
                           [Taken(c) EXCEPT !.templates = Array(r.rows),
                                            !.currentTemplateName = c.name,
                                            !.nameInput = c.name]),
                        "save", TRUE)
          ELSE Finished(Taken(c), "save", FALSE)

\* The rename handler after its fetch.
RenameResponse(c, r) ==
    /\ c.h = "rename"
    /\ page' =
          IF r.kind = "rows"
          THEN Finished(RenderTemplateSelect(
                           [Taken(c) EXCEPT !.templates = Array(r.rows),
                                            !.currentTemplateName = c.name]),
                        "rename", TRUE)
          ELSE Finished(Taken(c), "rename", FALSE)

\* The delete handler after its fetch: res.ok is not looked at, and the
\* body of a failed response has no templates.
DeleteResponse(c, r) ==
    /\ c.h = "delete"
    /\ page' =
          IF r.kind = "rejected"
          THEN Finished(Taken(c), "delete", FALSE)
          ELSE Finished(RenderTemplateSelect(
                           [Taken(c) EXCEPT
                              !.templates = IF r.kind = "rows"
                                            THEN Array(r.rows) ELSE NoArray,
                              !.currentTemplateName = "",
                              !.nameInput = ""]),
                        "delete", r.kind = "rows")

PageNext ==
    /\ \/ \E v \in NameTexts : TypeName(v)
       \/ ClickNew
       \/ ClickSave
       \/ ClickRename
       \/ ClickDelete
       \/ \E n \in PageNames \cup {""} : SelectChange(n)
       \/ \E c \in page.calls, r \in Responses :
             \/ LoadResponse(c, r)
             \/ SaveResponse(c, r)
             \/ RenameResponse(c, r)
             \/ DeleteResponse(c, r)
    /\ UNCHANGED << store, cfg, gen, auth >>

InitPage ==
    /\ page = PageStart
    /\ creds = [user |-> "", pass |-> ""]
    /\ session = [c \in Clients |-> NoSession]
    /\ areq = NoRequest
    /\ gen = GenIdle
    /\ configTable = TRUE
    /\ config = {}
    /\ seed = [SeedStart EXCEPT !.pc = "done"]
    /\ creq = ConfigIdle
    /\ cpre = {}
    /\ tables = TRUE
    /\ templates = {}
    /\ now = 0
    /\ txn = [p \in Procs |-> NoWrite]
    /\ req = [p \in Procs |-> Idle]
    /\ boot = [pc |-> "done", todo |-> << >>]
    /\ observed = FALSE
    /\ pre = {}

SpecPage == InitPage /\ [][PageNext]_vars


\* ------------------------------------------------------------------ claims
S == req[SeqProc]

Answered(op) == S.op = op /\ S.pc = "done"

Others(rel, names) == { r \in rel : r.name \notin names }

\* C1: in every state reachable by any interleaving of Upsert, Rename,
\* Delete and the first-boot migration, no two stored templates have the
\* same name.
C1_UniqueNames ==
    \A r1 \in templates, r2 \in templates : r1.name = r2.name => r1 = r2

C1_Witness ==
    /\ boot.pc = "done"
    /\ Cardinality(templates) = 3
    /\ req["p1"].op = "rename" /\ req["p1"].pc = "done"
    /\ req["p1"].status = 200 /\ req["p1"].updated = 1
    /\ req["p2"].op = "upsert" /\ req["p2"].pc = "done" /\ req["p2"].status = 200


\* C2: two renames with different sources and the same new name, each of
\* which passed its checks beside the other: at most one of them commits
\* its row, and one of them is answered with a failure having changed
\* nothing.
C2_OneRenameWins ==
    \A p \in Procs, q \in Procs :
        ( /\ p # q
          /\ req[p].raced /\ req[p].pc = "done"
          /\ req[q].raced /\ req[q].pc = "done" )
        => /\ ~(req[p].updated = 1 /\ req[q].updated = 1)
           /\ ~(req[p].status = 200 /\ req[q].status = 200)
           /\ \E l \in {p, q} : req[l].status # 200 /\ req[l].updated = 0

C2_Witness ==
    /\ req["p1"].raced /\ req["p1"].pc = "done"
    /\ req["p1"].status = 200 /\ req["p1"].updated = 1
    /\ req["p2"].raced /\ req["p2"].pc = "done"
    /\ req["p2"].status = 500 /\ req["p2"].updated = 0
    /\ Cardinality(templates) = 2

\* C3 (as claimed): a rename is never answered 200 when its UPDATE changed
\* no row, whatever Delete or Upsert ran beside it.
C3_SuccessMeansRenamed ==
    \A p \in Procs :
        (req[p].op = "rename" /\ req[p].pc = "done" /\ req[p].status = 200)
        => req[p].updated = 1


\* C4: Upsert(name, d1) followed by Upsert(name, d2) leaves exactly one
\* template named name, with data d2 and the createdAt it had after the
\* first call; an upsert never changes the createdAt of a stored template.
C4_UpsertTwice ==
    ( /\ S.op = "upsert"
      /\ S.name # ""
      /\ S.pc = "list" \/ (S.pc = "done" /\ S.status = 200) )
    => /\ Cardinality(RowsNamed(templates, S.name)) = 1
       /\ S.repeat => Cardinality(RowsNamed(pre, S.name)) = 1
       /\ \A r \in RowsNamed(templates, S.name) :
             /\ r.data = S.data
             /\ \A b \in RowsNamed(pre, S.name) : r.created_at = b.created_at

C4_Witness ==
    /\ Answered("upsert") /\ S.status = 200 /\ S.repeat
    /\ \E b \in RowsNamed(pre, S.name) : b.data # S.data /\ b.created_at < now

RenamesTo(new) ==
    /\ Answered("rename")
    /\ RowsNamed(pre, S.name) # {}
    /\ S.newName = new
    /\ new \notin {"", S.name}

\* C5: Rename(A, B, d) with A stored, B non-empty, B # A and B stored is
\* answered NameCollision (400) and changes nothing: the relation is what
\* it was when the call was issued.
C5_CollisionNoMutation ==
    \A new \in Names :
        (RenamesTo(new) /\ RowsNamed(pre, new) # {})
        => /\ templates = pre
           /\ S.updated = 0
           /\ S.status # 200
           /\ ~S.faulted => S.status = 400

C5_Witness ==
    /\ RenamesTo(S.newName) /\ RowsNamed(pre, S.newName) # {}
    /\ S.status = 400
    /\ \E a \in RowsNamed(pre, S.name) : a.data # S.data

\* C6: Rename(A, B, d) with A stored, B non-empty, B # A and no B stored
\* succeeds; afterwards no template is named A, exactly one is named B,
\* with data d and the createdAt A had, and every other template is as it
\* was.
C6_RenameMoves ==
    \A new \in Names :
        (RenamesTo(new) /\ RowsNamed(pre, new) = {} /\ ~S.faulted)
        => /\ S.status = 200
           /\ RowsNamed(templates, S.name) = {}
           /\ Cardinality(RowsNamed(templates, new)) = 1
           /\ \A b \in RowsNamed(templates, new), a \in RowsNamed(pre, S.name) :
                 b.data = S.data /\ b.created_at = a.created_at
           /\ Others(templates, {S.name, new}) = Others(pre, {S.name, new})

C6_Witness ==
    /\ RenamesTo(S.newName) /\ RowsNamed(pre, S.newName) = {}
    /\ S.status = 200
    /\ Others(pre, {S.name, S.newName}) # {}
    /\ \E a \in RowsNamed(pre, S.name) : a.data # S.data /\ a.created_at < now

\* C7: Rename(oldName, newName, d) with no template named oldName is
\* answered NotFound (404) for every newName, a taken one included, and
\* changes nothing.
C7_NotFound ==
    (Answered("rename") /\ RowsNamed(pre, S.name) = {})
    => /\ templates = pre
       /\ S.status # 200
       /\ ~S.faulted => S.status = 404

C7_Witness ==
    /\ Answered("rename") /\ RowsNamed(pre, S.name) = {}
    /\ S.status = 404
    /\ RowsNamed(pre, S.newName) # {}

\* C8 (as claimed): whenever Rename is answered with a failure, the
\* relation is what it was when the call was issued.
C8_FailedRenameNoEffect ==
    (Answered("rename") /\ S.status # 200) => templates = pre

\* C9: Rename(A, newName, d) with A stored and newName empty or equal to A
\* makes no collision check, succeeds, and leaves the template named A with
\* its name and createdAt and with data d; no other template changes.
C9_KeepName ==
    (Answered("rename") /\ S.newName \in {"", S.name})
    => /\ ~S.collisionChecked
       /\ (RowsNamed(pre, S.name) # {} /\ ~S.faulted)
          => /\ S.status = 200
             /\ RowsNamed(templates, S.name) =
                   { [a EXCEPT !.data = S.data] : a \in RowsNamed(pre, S.name) }
             /\ Others(templates, {S.name}) = Others(pre, {S.name})

C9_Witness ==
    /\ Answered("rename") /\ S.newName = "" /\ S.status = 200
    /\ \E a \in RowsNamed(pre, S.name) : a.data # S.data /\ a.created_at < now
    /\ Others(pre, {S.name}) # {}

\* C10: Delete(name) removes the template named name if stored and changes
\* no other; with no such template it succeeds and returns the unchanged
\* list, so a second Delete(name) leaves the store as the first left it.
C10_DeleteIdempotent ==
    (Answered("delete") /\ ~S.faulted)
    => /\ S.status = 200
       /\ templates = Others(pre, {S.name})
       /\ S.body \in Listings(templates)
       /\ RowsNamed(pre, S.name) = {} => S.body \in Listings(pre)
       /\ S.repeat => templates = pre

C10_Witness ==
    /\ Answered("delete") /\ S.status = 200 /\ S.repeat
    /\ pre # {}
    /\ S.body \in Listings(pre)

\* C11: an upsert changes no template of another name, and with a template
\* of another name stored (the one an Upsert(name1, d) left, whichever of
\* the two names came first) a successful Upsert(name2, d) leaves two
\* distinct templates, one of each name, and the returned list holds both.
C11_UpsertOtherNames ==
    ( /\ S.op = "upsert"
      /\ S.name # ""
      /\ S.pc \in {"list", "done"} )
    => /\ Others(templates, {S.name}) = Others(pre, {S.name})
       /\ (S.pc = "done" /\ S.status = 200)
          => \A n1 \in NamesOf(pre) \ {S.name} :
                /\ Cardinality(RowsNamed(templates, S.name)) = 1
                /\ Cardinality(RowsNamed(templates, n1)) = 1
                /\ \A n \in {S.name, n1} :
                      Cardinality({ i \in 1..Len(S.body) : S.body[i].name = n }) = 1

C11_Witness ==
    /\ Answered("upsert") /\ S.status = 200
    /\ RowsNamed(pre, S.name) = {}
    /\ \E a \in pre, b \in RowsNamed(templates, S.name) :
          a.data = b.data /\ a.created_at < b.created_at
    /\ Cardinality(templates) = 3

\* The name under which the answered request left the template it found
\* under n.
NameAfter(n) ==
    IF S.op = "rename" /\ n = S.name THEN FinalName(S) ELSE n

\* C12: a returned list holds every stored template exactly once, newest
\* createdAt first, so templates created at T1 < T2 < T3 come as
\* [T3, T2, T1]; an Upsert or a Rename leaves the templates it found in the
\* order they had.
C12_ListOrder ==
    (S.pc = "done" /\ S.status = 200)
    => /\ Len(S.body) = Cardinality(templates)
       /\ { S.body[i] : i \in 1..Len(S.body) } = templates
       /\ \A i \in 1..Len(S.body), j \in 1..Len(S.body) :
             i < j => S.body[i].created_at >= S.body[j].created_at
       /\ S.op \in {"upsert", "rename"}
          => \A r1 \in pre, r2 \in pre :
                r1.created_at > r2.created_at
                => \E i \in 1..Len(S.body), j \in 1..Len(S.body) :
                      /\ i < j
                      /\ S.body[i].name = NameAfter(r1.name)
                      /\ S.body[j].name = NameAfter(r2.name)

C12_Witness ==
    /\ Answered("rename") /\ S.status = 200 /\ S.newName # ""
    /\ Cardinality({ r.created_at : r \in pre }) = 3
    /\ Len(S.body) = 3
    /\ S.body[3].name = S.newName
    /\ S.body[1].created_at > S.body[2].created_at
    /\ S.body[2].created_at > S.body[3].created_at
    /\ now > S.body[3].created_at

\* C13 (as claimed): a GetConfig() that follows a successful SetConfig(k, v)
\* with non-empty k maps k to v (to null for a missing v), and differs from
\* what GetConfig() returned before that SetConfig in the value of k only:
\* every other key is there as before with the value it had, and when k had
\* an entry no key is added or removed.
C13_SetThenGet ==
    (creq.op = "get" /\ creq.pc = "done" /\ creq.status = 200 /\ creq.last # << >>)
    => LET set == creq.last[1]
           was == ConfigObject(set.before)
       IN  /\ set.key \in DOMAIN creq.result
           /\ creq.result[set.key] = Param(set.value)
           /\ DOMAIN creq.result \ {set.key} = DOMAIN was \ {set.key}
           /\ \A k \in DOMAIN was \ {set.key} : creq.result[k] = was[k]
           /\ EntriesOf(set.before, set.key) # {}
              => DOMAIN creq.result = DOMAIN was

KeysKept ==
    /\ KeysOf(config) \subseteq KeysOf(config')
    /\ DOMAIN ConfigObject(config) \subseteq DOMAIN ConfigObject(config')

\* C14: the configuration holds at most one entry per key in every state,
\* and no step of SetConfig, GetConfig, Upsert, Rename, Delete or initDB
\* removes an entry: a key stored, or returned by GetConfig(), is still so
\* after the step.
C14_OneEntryPerKeyKept ==
    /\ [](\A r1 \in config, r2 \in config : r1.key = r2.key => r1 = r2)
    /\ [][KeysKept]_vars

C14_Witness ==
    /\ creq.op = "set" /\ creq.pc = "done" /\ creq.status = 200
    /\ \E r \in EntriesOf(cpre, creq.key) : r.value # creq.value
    /\ Cardinality(config) = 2
    /\ seed.put # {}
    /\ req["p2"].op = "delete" /\ req["p2"].pc = "done" /\ req["p2"].status = 200

\* C18 (as claimed): no seeded row is ever inserted into a configuration
\* that holds an entry the seeding did not insert itself, an entry written
\* by a SetConfig between initDB's count and its inserts included.
C18_SeedOnlyIntoEmpty == ~seed.mixed

\* C15 (as claimed): the list returned by a successful Upsert(name, data)
\* holds a template named name that carries data, also when other callers
\* issue Delete or Rename on that name beside it.
C15_UpsertListHoldsIt ==
    \A p \in Procs :
        (req[p].op = "upsert" /\ req[p].pc = "done" /\ req[p].status = 200)
        => req[p].listed

\* C16: an Upsert with an empty or missing name is answered ValidationError
\* (400) at once, before any statement is sent to the store: the handler
\* is never at a query, nothing is thrown, and the relation is what it was.
C16_EmptyNameRejected ==
    (S.op = "upsert" /\ S.name = "")
    => /\ S.pc = "done"
       /\ S.status = 400
       /\ ~S.faulted
       /\ templates = pre

C16_Witness ==
    /\ S.op = "upsert" /\ S.name = "" /\ S.pc = "done"
    /\ S.status = 400
    /\ S.data = "d2"
    /\ Cardinality(pre) = 2

IsPrefix(s, t) == Len(s) <= Len(t) /\ SubSeq(t, 1, Len(s)) = s

\* The non-empty content deltas of a stream, concatenated in order.
RECURSIVE DeltaText(_)
DeltaText(st) ==
    IF st = << >> THEN << >>
    ELSE (IF Head(st).delta THEN Head(st).content ELSE << >>)
         \o DeltaText(Tail(st))

\* The text of the response: what res.write wrote, or the JSON error.
ResponseText == IF gen.json # "" THEN << gen.json >> ELSE gen.written

EndedOnce ==
    /\ gen.ended <= 1
    /\ gen.pc = "done" <=> gen.ended = 1

\* C20 (as claimed): the text written to the response is in every state a
\* prefix of the stream's concatenated non-empty content deltas, is all of
\* it when the stream completed without error, and the response is ended
\* exactly once on every path.
C20_ResponseIsStreamPrefix ==
    /\ IsPrefix(ResponseText, DeltaText(gen.all))
    /\ (gen.pc = "done" /\ gen.status = 200 /\ ~gen.failed)
       => ResponseText = DeltaText(gen.all)
    /\ EndedOnce

\* C20 (amended): the text written with res.write is in every state a
\* prefix of the stream's concatenated non-empty content deltas, and all of
\* it when the stream completed without error; a request that fails before
\* anything was written (no key, no stream, an error before the first
\* non-empty delta) is answered 400 or 500 with a JSON error instead of
\* text; the response is ended exactly once on every path.
C20_WrittenIsStreamPrefix ==
    /\ IsPrefix(gen.written, DeltaText(gen.all))
    /\ (gen.pc = "done" /\ ~gen.failed /\ gen.key # "")
       => gen.written = DeltaText(gen.all) /\ gen.status = 200 /\ gen.json = ""
    /\ gen.json # "" <=> ( /\ gen.pc = "done"
                          /\ gen.written = << >>
                          /\ (gen.failed \/ gen.key = "") )
    /\ gen.json # "" => gen.status \in {400, 500}
    /\ EndedOnce

C20_Witness ==
    /\ gen.pc = "done" /\ gen.failed /\ gen.ended = 1
    /\ gen.written = << "b", "a", "a" >>
    /\ DeltaText(gen.all) = << "b", "a", "a", "b", "a" >>
    /\ gen.status = 200

\* The step takes in a request of client c that is not to a public route.
Gated(c) ==
    /\ areq' # areq
    /\ areq'.client = c
    /\ areq'.path \notin PublicRoutes

C21_ReleasedOnce ==
    /\ [](\A p \in Procs :
            /\ req[p].conn \in {0, 1}
            /\ req[p].conn = 1 => /\ req[p].op = "rename"
                                  /\ req[p].pc \notin {"idle", "begin", "done"})
    /\ [][\A p \in Procs :
            \/ req'[p].conn = req[p].conn /\ (req[p].conn = 1 => req'[p].pc # "done")
            \/ /\ req[p].op = "rename" /\ req[p].pc = "begin"
               /\ req'[p].conn = req[p].conn + 1
            \/ /\ req[p].conn = 1 /\ req'[p].pc = "done"
               /\ req'[p].conn = 0]_vars

\* A rename whose UPDATE passed both checks beside the other caller's and
\* was answered 500, its client given back.
C21_Witness ==
    \E p \in Procs :
       /\ req[p].op = "rename" /\ req[p].pc = "done"
       /\ req[p].status = 500 /\ req[p].raced
       /\ req[p].conn = 0

\* C22: when a handler of the page has finished, with a successful or a
\* failed response, the rename and delete buttons are enabled exactly when
\* currentTemplateName is not empty, and a currentTemplateName that is not
\* empty names a template of the page's templates list.
C22_ButtonsFollowSelection ==
    page.last.h # "none"
    => /\ page.renameDisabled = (page.currentTemplateName = "")
       /\ page.deleteDisabled = (page.currentTemplateName = "")
       /\ page.currentTemplateName # ""
          => /\ page.templates.array
             /\ page.currentTemplateName \in Range(page.templates.names)

====
